---- MODULE Spec2Model ----
(***************************************************************************)
(* Model of examples/simple/simple.cpp: an HTTP server that answers        *)
(* /props requests with the probability the loaded model assigns to a set  *)
(* of target tokens right after a prompt.  One llama_context is shared by  *)
(* every request handler; the handlers run on the server's worker threads. *)
(***************************************************************************)
EXTENDS Integers, Sequences, FiniteSets, TLC

(***************************************************************************)
(* Bounds of the model.                                                    *)
(***************************************************************************)
\* number of requests the server accepts in one behaviour
MaxRequests == 2
\* characters of the target strings parse_target_tokens is called with
MaxTargetLen == 4
\* entries of the logit vectors compute_softmax is called with
SoftmaxLen == 3
\* characters of the long prompt (one token each, plus the start token)
LongPromptLen == 512
\* the context lengths (-c) the server may have been started with
SmallCtx == 1
LargeCtx == 1024

\* worker threads of the HTTP server that run handlers concurrently
Workers == {1, 2}

(***************************************************************************)
(* Program constants.                                                      *)
(***************************************************************************)
\* llama_batch_init(512, 0, 1)
BatchCapacity == 512

(***************************************************************************)
(* Text, vocabulary and the tokenizer of the model collaborator.           *)
(* A text is a sequence of characters; the vocabulary is character level.  *)
(***************************************************************************)
\* piece of token id i-1; token 0 is the start-of-sequence token
VocabPieces == <<"<s>", "H", "e", "l", "o">>
n_vocab == Len(VocabPieces)
Tokens == 0 .. (n_vocab - 1)
\* the start-of-sequence token
TokenBOS == 0
\* what memory holds after an out-of-bounds write: no token, position or id
Garbage == -1

\* the token of each character the vocabulary knows
TokenId == [c \in {VocabPieces[t + 1] : t \in Tokens \ {TokenBOS}} |->
              CHOOSE t \in Tokens \ {TokenBOS} : VocabPieces[t + 1] = c]
IsMappable(c) == c \in DOMAIN TokenId
TokenOfChar(c) == TokenId[c]

\* ::llama_tokenize(ctx, text, add_bos): the start token when asked for, then
\* one token per character the vocabulary knows; unknown characters yield none
llama_tokenize(text, add_bos) ==
    LET known == SelectSeq(text, IsMappable)
        body  == [i \in 1 .. Len(known) |-> TokenOfChar(known[i])]
    IN  (IF add_bos THEN <<TokenBOS>> ELSE <<>>) \o body

\* llama_token_to_piece(ctx, token)
llama_token_to_piece(t) == IF t \in Tokens THEN VocabPieces[t + 1] ELSE "?"

(***************************************************************************)
(* std::getline(ss, token, ',') in a loop: the fragments of a string.      *)
(* An empty stream yields nothing, so a trailing comma adds no fragment.   *)
(***************************************************************************)
CommaAt(s) == {i \in 1 .. Len(s) : s[i] = ","}
FirstComma(s) == CHOOSE i \in CommaAt(s) : \A j \in CommaAt(s) : i <= j

\* a bug: the loop ends at the first empty fragment
RECURSIVE GetlineFragmentsStopAtEmpty(_)
GetlineFragmentsStopAtEmpty(s) ==
    IF s = <<>> THEN <<>>
    ELSE IF CommaAt(s) = {} THEN <<s>>
    ELSE IF FirstComma(s) = 1 THEN <<>>
    ELSE <<SubSeq(s, 1, FirstComma(s) - 1)>>
            \o GetlineFragmentsStopAtEmpty(SubSeq(s, FirstComma(s) + 1, Len(s)))

RECURSIVE GetlineFragments(_)
GetlineFragments(s) ==
    IF s = <<>> THEN <<>>
    ELSE IF CommaAt(s) = {} THEN <<s>>
    ELSE <<SubSeq(s, 1, FirstComma(s) - 1)>>
            \o GetlineFragments(SubSeq(s, FirstComma(s) + 1, Len(s)))

\* a bug: every fragment is tokenized with the start token
RECURSIVE AppendFragmentTokensBos(_, _)
AppendFragmentTokensBos(target_tokens, frags) ==
    IF frags = <<>> THEN target_tokens
    ELSE AppendFragmentTokensBos(target_tokens \o llama_tokenize(Head(frags), TRUE),
                                 Tail(frags))

\* the body of the while loop of parse_target_tokens, over the fragments
RECURSIVE AppendFragmentTokens(_, _)
AppendFragmentTokens(target_tokens, frags) ==
    IF frags = <<>> THEN target_tokens
    ELSE AppendFragmentTokens(target_tokens \o llama_tokenize(Head(frags), FALSE),
                              Tail(frags))

parse_target_tokens(target_chars) ==
    AppendFragmentTokens(<<>>, GetlineFragments(target_chars))

(***************************************************************************)
(* Floats.  A float is NaN, +infinity or a non-negative rational n/d; the  *)
(* finite part is exact (rounding is not modelled).  A logit is -inf,      *)
(* +inf, NaN, a finite value too small or too large for expf, or ln(n).    *)
(***************************************************************************)
FNaN == [k |-> "nan", n |-> 0, d |-> 1]
FInf == [k |-> "inf", n |-> 0, d |-> 1]
Fin(n, d) == [k |-> "fin", n |-> n, d |-> d]
FZero == Fin(0, 1)

LNegInf == [k |-> "ninf", n |-> 0]
LPosInf == [k |-> "pinf", n |-> 0]
LNaN == [k |-> "nan", n |-> 0]
LTiny == [k |-> "tiny", n |-> 0]
LHuge == [k |-> "huge", n |-> 0]
Ln(n) == [k |-> "ln", n |-> n]

\* exp(logits[i]) in float arithmetic
FExp(l) ==
    CASE l.k = "ninf" -> FZero
      [] l.k = "tiny" -> FZero
      [] l.k = "ln"   -> Fin(l.n, 1)
      [] l.k = "huge" -> FInf
      [] l.k = "pinf" -> FInf
      [] OTHER        -> FNaN

\* a + b for non-negative floats
FAdd(a, b) ==
    IF a.k = "nan" \/ b.k = "nan" THEN FNaN
    ELSE IF a.k = "inf" \/ b.k = "inf" THEN FInf
    ELSE Fin(a.n * b.d + b.n * a.d, a.d * b.d)

\* a / b for non-negative floats
FDiv(a, b) ==
    IF a.k = "nan" \/ b.k = "nan" THEN FNaN
    ELSE IF a.k = "inf" THEN (IF b.k = "inf" THEN FNaN ELSE FInf)
    ELSE IF b.k = "inf" THEN FZero
    ELSE IF b.n = 0 THEN (IF a.n = 0 THEN FNaN ELSE FInf)
    ELSE Fin(a.n * b.d, a.d * b.n)

\* the first loop of compute_softmax: sum_exp after i entries
RECURSIVE SumExp(_, _)
SumExp(logits, i) ==
    IF i = 0 THEN FZero ELSE FAdd(SumExp(logits, i - 1), FExp(logits[i - 1]))

\* compute_softmax(logits, n_vocab): probs[i] = exp(logits[i]) / sum_exp
compute_softmax(logits, nv) ==
    [i \in 0 .. (nv - 1) |-> FDiv(FExp(logits[i]), SumExp(logits, nv))]

(***************************************************************************)
(* Requests.  The body is either not JSON or a JSON object whose fields    *)
(* "prompt" and "target_chars" are each absent or a string.                *)
(***************************************************************************)
AbsentField == [kind |-> "absent", val |-> <<>>]
StringField(s) == [kind |-> "string", val |-> s]

LongPrompt == [i \in 1 .. LongPromptLen |-> "H"]
PromptTexts == {<<>>, <<"?">>, <<"H">>, LongPrompt}
TargetTexts == {<<>>, <<"H">>, <<"e", ",", ",", "e">>}

ObjectBody(p, t) == [json |-> "object", prompt |-> p, target_chars |-> t]
MalformedBody == [json |-> "malformed", prompt |-> AbsentField, target_chars |-> AbsentField]
\* every prompt with the target "H", every target with the prompt "H", and
\* each field absent in turn
ObjectBodies ==
    {ObjectBody(StringField(s), StringField(<<"H">>)) : s \in PromptTexts}
      \cup {ObjectBody(StringField(<<"H">>), StringField(s)) : s \in TargetTexts}
      \cup {ObjectBody(AbsentField, StringField(<<"H">>)),
            ObjectBody(StringField(<<"H">>), AbsentField)}
RequestBodies == {MalformedBody} \cup ObjectBodies
NoRequest == [json |-> "none", prompt |-> AbsentField, target_chars |-> AbsentField]

\* httplib::Response as the handler receives it: no status, no content
NewResponse == [status |-> -1, error |-> "", content_set |-> FALSE, tokens |-> <<>>]

\* res.status = s; res.set_content("{\"error\": ...}")
ErrorResponse(s, msg) == [status |-> s, error |-> msg, content_set |-> TRUE, tokens |-> <<>>]

(***************************************************************************)
(* The batch of one query: llama_batch, a struct of arrays.                *)
(***************************************************************************)
NoBatch ==
    [state |-> "none", n_tokens |-> 0,
     token |-> <<>>, pos |-> <<>>, seq_id |-> <<>>, logits |-> <<>>]

\* lines 83-85: llama_batch_add(batch, tokens_list[i], i, { 0 }, false) for
\* every i, on the batch llama_batch_init returned
AddAll(toks) ==
    [state |-> "live",
     n_tokens |-> Len(toks),
     token |-> toks,
     pos |-> [i \in 1 .. Len(toks) |-> i - 1],
     seq_id |-> [i \in 1 .. Len(toks) |-> 0],
     logits |-> [i \in 1 .. Len(toks) |-> FALSE]]

\* line 86: batch.logits[batch.n_tokens - 1] = true
SetLastLogits(b) ==
    IF b.n_tokens = 0 THEN b
    ELSE [b EXCEPT !.logits = [@ EXCEPT ![b.n_tokens] = TRUE]]

\* Writing n entries into arrays of BatchCapacity entries, and the flag of
\* entry n - 1: inside the arrays the writes land; outside them (n = 0 or
\* n > BatchCapacity) the behaviour is undefined: the process dies, or the
\* writes land in foreign memory and stay, or that memory is overwritten.
BatchWriteOutcomes(n) ==
    IF n >= 1 /\ n <= BatchCapacity THEN {"written"}
    ELSE {"crash", "written", "clobbered"}

\* what an array holds when the memory past its end has been overwritten
Overwritten(array, garbage) ==
    [i \in 1 .. Len(array) |-> IF i > BatchCapacity THEN garbage ELSE array[i]]
Clobbered(b) ==
    [b EXCEPT !.token = Overwritten(@, Garbage),
              !.pos = Overwritten(@, Garbage),
              !.seq_id = Overwritten(@, Garbage),
              !.logits = Overwritten(@, FALSE)]

\* lines 82-86: the batch as llama_decode will read it
FilledBatch(toks, outcome) ==
    IF outcome = "clobbered"
    THEN Clobbered(SetLastLogits(AddAll(toks)))
    ELSE SetLastLogits(AddAll(toks))

(***************************************************************************)
(* The decisions of handle_props.                                          *)
(***************************************************************************)
\* json::parse(req.body) throws json::parse_error
IsParseError(body) == body.json = "malformed"

\* json_req["prompt"].get<std::string>() throws json::type_error on null
IsTypeError(body) == body.prompt.kind # "string" \/ body.target_chars.kind # "string"

\* a bug: only the prompt is tested
IsEmptyInputPromptOnly(prompt, target_chars) == prompt = <<>>

\* prompt.empty() || target_chars.empty()
IsEmptyInput(prompt, target_chars) == prompt = <<>> \/ target_chars = <<>>

\* a bug: off by one, the start token is not counted
ExceedsContextOffByOne(n_tokens, nctx) == n_tokens - 1 > nctx

\* tokens_list.size() > n_ctx
ExceedsContext(n_tokens, nctx) == n_tokens > nctx

\* the logit vectors the model may leave in the context after a decode
ModelOutputs ==
    { [t \in Tokens |-> IF t = 1 THEN Ln(3) ELSE Ln(1)],
      [t \in Tokens |-> LNegInf],
      [t \in Tokens |-> IF t = 1 THEN LPosInf ELSE Ln(1)] }

(***************************************************************************)
(* State.                                                                  *)
(***************************************************************************)
VARIABLES
    n_ctx,        \* llama_n_ctx(ctx): fixed when the context is created
    kv_cache,     \* the attention cache of ctx: the tokens of its cells
    ctx_logits,   \* the output buffer of ctx: who decoded, which rows, values
    heap,         \* number of batch buffers allocated and not freed
    crashed,      \* the process died of undefined behaviour
    served,       \* requests accepted so far
    pc,           \* where each worker's handler is
    req,          \* the request body each worker handles
    res,          \* the response each worker fills
    tokens_list,  \* the prompt's tokens
    batch,        \* the handler's llama_batch
    decode_calls, \* llama_decode calls of the current request
    decode_rc,    \* what its llama_decode returned: "none", "ok" or "failed"
    logits,       \* the logit vector the handler read from ctx
    probs,        \* the handler's std::vector<float> probs
    kv_start,     \* kv_cache when the current request was accepted
    svr_running,  \* the server takes requests: svr->stop() was not called
    freed,        \* how often ctx, model and backend were freed
    unit_arg,     \* the argument of a function called on its own
    unit_ret      \* what that call returned

vars == <<n_ctx, kv_cache, ctx_logits, heap, crashed, served, pc, req, res,
          tokens_list, batch, decode_calls, decode_rc, logits, probs, kv_start,
          svr_running, freed, unit_arg, unit_ret>>

NoLogits == [owner |-> 0, rows |-> {}, vec |-> [t \in Tokens |-> LNaN]]
\* main, lines 131-162: backend, model and context exist and were never freed
NothingFreed == [ctx |-> 0, model |-> 0, backend |-> 0]
\* no function has been called on its own
NoCall == [fn |-> "none", val |-> <<>>]

\* main up to svr.listen: one model, one context, no request taken yet
ServerStarted ==
    /\ n_ctx \in {SmallCtx, LargeCtx}
    /\ kv_cache = <<>>
    /\ ctx_logits = NoLogits
    /\ heap = 0
    /\ crashed = FALSE
    /\ served = 0
    /\ pc = [w \in Workers |-> "idle"]
    /\ req = [w \in Workers |-> NoRequest]
    /\ res = [w \in Workers |-> NewResponse]
    /\ tokens_list = [w \in Workers |-> <<>>]
    /\ batch = [w \in Workers |-> NoBatch]
    /\ decode_calls = [w \in Workers |-> 0]
    /\ decode_rc = [w \in Workers |-> "none"]
    /\ logits = [w \in Workers |-> <<>>]
    /\ probs = [w \in Workers |-> <<>>]
    /\ kv_start = [w \in Workers |-> <<>>]
    /\ svr_running = TRUE
    /\ freed = NothingFreed

Init ==
    /\ ServerStarted
    /\ unit_arg = <<>>
    /\ unit_ret = NoCall

Returned(w) == pc[w] \in {"idle", "done", "thrown"}

ctx_vars == <<n_ctx, kv_cache, ctx_logits>>
softmax_vars == <<logits, probs>>
decode_vars == <<decode_calls, decode_rc>>
lifetime_vars == <<svr_running, freed>>
unit_vars == <<unit_arg, unit_ret>>
props_vars == <<ctx_vars, heap, crashed, served, pc, req, res, tokens_list, batch,
                decode_vars, softmax_vars, kv_start>>

(***************************************************************************)
(* handle_props.  Up to the call of llama_decode the handler works on its  *)
(* own locals and on immutable data of the context (vocabulary, n_ctx), so *)
(* that part is one step; llama_decode is entered in that step and returns *)
(* in a later one; the rest of the handler is a third step.                *)
(***************************************************************************)
\* svr.Post("/props", ...): a worker thread takes a request and calls
\* handle_props with a fresh response and fresh locals
CanBegin(w) == ~crashed /\ svr_running /\ Returned(w) /\ served < MaxRequests
Begin(w, body) ==
    /\ served' = served + 1
    /\ req' = [req EXCEPT ![w] = body]
    /\ kv_start' = [kv_start EXCEPT ![w] = kv_cache]
    /\ decode_rc' = [decode_rc EXCEPT ![w] = "none"]
    /\ logits' = [logits EXCEPT ![w] = <<>>]
    /\ probs' = [probs EXCEPT ![w] = <<>>]

\* the handler returns before it allocates a batch
ReturnEarly(w, toks, response) ==
    /\ tokens_list' = [tokens_list EXCEPT ![w] = toks]
    /\ batch' = [batch EXCEPT ![w] = NoBatch]
    /\ decode_calls' = [decode_calls EXCEPT ![w] = 0]
    /\ res' = [res EXCEPT ![w] = response]
    /\ UNCHANGED <<ctx_vars, heap, crashed, lifetime_vars, unit_vars>>

\* lines 54-60: the body is not JSON
RejectInvalidJSON(w) ==
    /\ CanBegin(w)
    /\ \E body \in RequestBodies :
        /\ IsParseError(body)
        /\ Begin(w, body)
        /\ ReturnEarly(w, <<>>, ErrorResponse(400, "Invalid JSON format"))
        /\ pc' = [pc EXCEPT ![w] = "done"]

\* lines 63-64: a field is absent; get<std::string>() throws and nothing in
\* handle_props catches it: the handler is left with the response untouched
ThrowTypeError(w) ==
    /\ CanBegin(w)
    /\ \E body \in RequestBodies :
        /\ ~IsParseError(body)
        /\ IsTypeError(body)
        /\ Begin(w, body)
        /\ ReturnEarly(w, <<>>, NewResponse)
        /\ pc' = [pc EXCEPT ![w] = "thrown"]

IsParsed(body) == ~IsParseError(body) /\ ~IsTypeError(body)

\* lines 66-70
RejectEmpty(w) ==
    /\ CanBegin(w)
    /\ \E body \in RequestBodies :
        /\ IsParsed(body)
        /\ IsEmptyInput(body.prompt.val, body.target_chars.val)
        /\ Begin(w, body)
        /\ ReturnEarly(w, <<>>,
                       ErrorResponse(400, "Missing prompt or target_chars parameter"))
        /\ pc' = [pc EXCEPT ![w] = "done"]

\* lines 73-79
RejectTooLong(w) ==
    /\ CanBegin(w)
    /\ \E body \in RequestBodies :
        LET toks == llama_tokenize(body.prompt.val, TRUE) IN
        /\ IsParsed(body)
        /\ ~IsEmptyInput(body.prompt.val, body.target_chars.val)
        /\ ExceedsContext(Len(toks), n_ctx)
        /\ Begin(w, body)
        /\ ReturnEarly(w, toks, ErrorResponse(400, "Prompt is too long"))
        /\ pc' = [pc EXCEPT ![w] = "done"]

\* lines 73-87: the prompt fits the context; the batch is allocated and
\* filled and llama_decode(ctx, batch) is entered, to run until it returns
SubmitBatch(w) ==
    /\ CanBegin(w)
    /\ \E body \in RequestBodies :
        LET toks == llama_tokenize(body.prompt.val, TRUE) IN
        /\ IsParsed(body)
        /\ ~IsEmptyInput(body.prompt.val, body.target_chars.val)
        /\ ~ExceedsContext(Len(toks), n_ctx)
        /\ Begin(w, body)
        /\ tokens_list' = [tokens_list EXCEPT ![w] = toks]
        /\ res' = [res EXCEPT ![w] = NewResponse]
        /\ heap' = heap + 1
        /\ \E outcome \in BatchWriteOutcomes(Len(toks)) :
             /\ batch' = [batch EXCEPT ![w] = FilledBatch(toks, outcome)]
             /\ crashed' = (outcome = "crash")
             /\ pc' = [pc EXCEPT ![w] =
                         IF outcome = "crash" THEN "building" ELSE "decoding"]
             /\ decode_calls' = [decode_calls EXCEPT ![w] =
                                   IF outcome = "crash" THEN 0 ELSE 1]
        /\ UNCHANGED <<ctx_vars, lifetime_vars, unit_vars>>

\* the cells a batch adds to the attention cache
BatchTokens(b) == b.token
\* the batch indices whose logits the decode leaves in the context
OutputRows(b) == {i - 1 : i \in {j \in 1 .. Len(b.logits) : b.logits[j]}}

\* llama_decode returns 0: the batch's cells are in the cache (it had room for
\* them) and the context holds the logits of the flagged rows
DecodeSucceeds(w) ==
    /\ ~crashed
    /\ pc[w] = "decoding"
    /\ Len(kv_cache) + batch[w].n_tokens <= n_ctx
    /\ kv_cache' = kv_cache \o BatchTokens(batch[w])
    /\ \E v \in ModelOutputs :
         ctx_logits' = [owner |-> w, rows |-> OutputRows(batch[w]), vec |-> v]
    /\ decode_rc' = [decode_rc EXCEPT ![w] = "ok"]
    /\ pc' = [pc EXCEPT ![w] = "decoded"]
    /\ UNCHANGED <<n_ctx, heap, crashed, served, req, res, tokens_list, batch,
                   decode_calls, softmax_vars, kv_start, lifetime_vars, unit_vars>>

\* a bug: a failed decode is tried again
DecodeFailsRetry(w) ==
    /\ ~crashed
    /\ pc[w] = "decoding"
    /\ decode_rc' = [decode_rc EXCEPT ![w] = "failed"]
    /\ decode_calls' = [decode_calls EXCEPT ![w] = @ + 1]
    /\ UNCHANGED <<ctx_vars, heap, crashed, served, pc, req, res, tokens_list,
                   batch, softmax_vars, kv_start, lifetime_vars, unit_vars>>

\* lines 87-91: llama_decode returns non-zero; the handler answers 500 and
\* returns (the batch is not freed on this path)
DecodeFails(w) ==
    /\ ~crashed
    /\ pc[w] = "decoding"
    /\ decode_rc' = [decode_rc EXCEPT ![w] = "failed"]
    /\ res' = [res EXCEPT ![w] = ErrorResponse(500, "Failed to decode")]
    /\ pc' = [pc EXCEPT ![w] = "done"]
    /\ UNCHANGED <<ctx_vars, heap, crashed, served, req, tokens_list, batch,
                   decode_calls, softmax_vars, kv_start, lifetime_vars, unit_vars>>

\* json_res.dump() of a float: a number, or null when it is not finite
JsonNull == [k |-> "null", n |-> 0, d |-> 1]
JsonNumber(f) == IF f.k = "fin" THEN f ELSE JsonNull

\* a bug: the distribution is indexed by the entry's place, not by its token
TokenInfosByPosition(target_tokens, p) ==
    [i \in 1 .. Len(target_tokens) |->
        [token |-> llama_token_to_piece(target_tokens[i]),
         probability |-> JsonNumber(p[i - 1])]]

\* lines 103-108: one entry per target token
TokenInfos(target_tokens, p) ==
    [i \in 1 .. Len(target_tokens) |->
        [token |-> llama_token_to_piece(target_tokens[i]),
         probability |-> JsonNumber(p[target_tokens[i]])]]

\* a bug: the index is the number of tokens, one past the last entry
LogitsIndexPastEnd(b) == b.n_tokens

\* line 94: llama_get_logits_ith(ctx, batch.n_tokens - 1) gives a pointer into
\* the context's buffer, read by compute_softmax.  While another decode runs
\* the read races with its writes and may see any values.  A row the last
\* decode did not produce is no valid row: the read kills the process or
\* sees what the buffer holds.  A freed context is no valid memory at all.
LogitsIndex(b) == b.n_tokens - 1
LogitsReads(w) ==
    LET racing == \E v \in Workers \ {w} : pc[v] = "decoding"
        valid  == LogitsIndex(batch[w]) \in ctx_logits.rows /\ freed.ctx = 0
    IN  [crash : IF valid THEN {FALSE} ELSE {FALSE, TRUE},
         vec   : IF racing \/ freed.ctx > 0 THEN ModelOutputs ELSE {ctx_logits.vec}]

\* lines 93-115: softmax, target tokens, the response, llama_batch_free
Respond(w) ==
    /\ ~crashed
    /\ pc[w] = "decoded"
    /\ \E rd \in LogitsReads(w) :
         IF rd.crash
         THEN /\ crashed' = TRUE
              /\ UNCHANGED <<heap, pc, res, batch, softmax_vars>>
         ELSE LET p == compute_softmax(rd.vec, n_vocab)
                  target_tokens == parse_target_tokens(req[w].target_chars.val)
              IN  /\ logits' = [logits EXCEPT ![w] = rd.vec]
                  /\ probs' = [probs EXCEPT ![w] = p]
                  /\ res' = [res EXCEPT ![w] =
                               [status |-> res[w].status, error |-> "",
                                content_set |-> TRUE,
                                tokens |-> TokenInfos(target_tokens, p)]]
                  /\ batch' = [batch EXCEPT ![w].state = "freed"]
                  /\ heap' = heap - 1
                  /\ pc' = [pc EXCEPT ![w] = "done"]
                  /\ crashed' = crashed
    /\ UNCHANGED <<ctx_vars, served, req, tokens_list, decode_vars, kv_start,
                   lifetime_vars, unit_vars>>

Next ==
    \E w \in Workers :
        \/ RejectInvalidJSON(w)
        \/ ThrowTypeError(w)
        \/ RejectEmpty(w)
        \/ RejectTooLong(w)
        \/ SubmitBatch(w)
        \/ DecodeSucceeds(w)
        \/ DecodeFails(w)
        \/ Respond(w)

Spec == Init /\ [][Next]_vars

(***************************************************************************)
(* The server with its /shutdown route.  Spec above is the server as long  *)
(* as no /shutdown request arrives; here the workers take /shutdown        *)
(* requests as well.  svr->stop() closes the listening socket: the workers *)
(* take no request after it, and handlers that run are not waited for.     *)
(***************************************************************************)
ShutdownRequest == [json |-> "shutdown", prompt |-> AbsentField, target_chars |-> AbsentField]
\* line 118: res.set_content("{\"message\": \"Shutting down\"}")
ShutdownResponse == [status |-> -1, error |-> "", content_set |-> TRUE, tokens |-> <<>>]

\* svr.Post("/shutdown", ...), line 118: a worker thread takes the request,
\* calls handle_shutdown and the handler sets the content of the response
AcceptShutdown(w) ==
    /\ CanBegin(w)
    /\ Begin(w, ShutdownRequest)
    /\ ReturnEarly(w, <<>>, ShutdownResponse)
    /\ pc' = [pc EXCEPT ![w] = "shutdown"]

\* free() of what was freed before is undefined: the process dies in the
\* call, or the call returns
FreeOutcomes(times_freed) == IF times_freed = 0 THEN {"freed"} ELSE {"crash", "freed"}

\* lines 119-124: svr->stop(); llama_free(ctx); llama_free_model(model);
\* llama_backend_free(), with no test whether another handler did so before
\* and no wait for the handlers that use ctx
Shutdown(w) ==
    /\ ~crashed
    /\ pc[w] = "shutdown"
    /\ svr_running' = FALSE
    /\ \E outcome \in FreeOutcomes(freed.ctx) :
         /\ crashed' = (outcome = "crash")
         /\ freed' = IF outcome = "crash"
                     THEN [freed EXCEPT !.ctx = @ + 1]
                     ELSE [ctx |-> freed.ctx + 1, model |-> freed.model + 1,
                           backend |-> freed.backend + 1]
         /\ pc' = [pc EXCEPT ![w] = IF outcome = "crash" THEN "shutdown" ELSE "done"]
    /\ UNCHANGED <<ctx_vars, heap, served, req, res, tokens_list, batch,
                   decode_vars, softmax_vars, kv_start, unit_vars>>

\* a handler inside llama_decode, or about to read the logits, works on
\* freed memory: the process may die (or go on: the steps of handle_props)
UseFreedContext(w) ==
    /\ ~crashed
    /\ freed.ctx > 0
    /\ pc[w] \in {"decoding", "decoded"}
    /\ crashed' = TRUE
    /\ UNCHANGED <<ctx_vars, heap, served, pc, req, res, tokens_list, batch,
                   decode_vars, softmax_vars, kv_start, lifetime_vars, unit_vars>>

NextShutdown ==
    \/ Next
    \/ \E w \in Workers :
        \/ AcceptShutdown(w)
        \/ Shutdown(w)
        \/ UseFreedContext(w)

SpecShutdown == Init /\ [][NextShutdown]_vars

(***************************************************************************)
(* parse_target_tokens called on its own, with every target string of at   *)
(* most MaxTargetLen characters and with the usage example "H,e,l,o".      *)
(***************************************************************************)
\* a known character, another known character, the separator, and a
\* character the vocabulary does not know
TargetChars == {"H", "e", ",", "?"}
HeloTarget == <<"H", ",", "e", ",", "l", ",", "o">>
TargetStrings ==
    UNION {[1 .. n -> TargetChars] : n \in 0 .. MaxTargetLen} \cup {HeloTarget}

InitParse ==
    /\ ServerStarted
    /\ unit_arg \in TargetStrings
    /\ unit_ret = NoCall

\* lines 26-35: target_tokens = parse_target_tokens(ctx, target_chars)
CallParseTargetTokens ==
    /\ unit_ret.fn = "none"
    /\ unit_ret' = [fn |-> "parse_target_tokens",
                    val |-> parse_target_tokens(unit_arg)]
    /\ UNCHANGED <<props_vars, lifetime_vars, unit_arg>>

NextParse == CallParseTargetTokens

SpecParse == InitParse /\ [][NextParse]_vars

(***************************************************************************)
(* compute_softmax called on its own, with every vector of SoftmaxLen      *)
(* logits: infinite, NaN, beyond the range of expf, or ln(1) and ln(3).    *)
(***************************************************************************)
LogitValues == {LNegInf, LPosInf, LNaN, LTiny, LHuge, Ln(1), Ln(3)}
LogitVectors == [0 .. (SoftmaxLen - 1) -> LogitValues]

InitSoftmax ==
    /\ ServerStarted
    /\ unit_arg \in LogitVectors
    /\ unit_ret = NoCall

\* lines 38-49: probs = compute_softmax(logits, n_vocab)
CallComputeSoftmax ==
    /\ unit_ret.fn = "none"
    /\ unit_ret' = [fn |-> "compute_softmax",
                    val |-> compute_softmax(unit_arg, SoftmaxLen)]
    /\ UNCHANGED <<props_vars, lifetime_vars, unit_arg>>

NextSoftmax == CallComputeSoftmax

SpecSoftmax == InitSoftmax /\ [][NextSoftmax]_vars

(***************************************************************************)
(* Properties.                                                             *)
(***************************************************************************)
HasStringFields(w) ==
    /\ req[w].json = "object"
    /\ req[w].prompt.kind = "string"
    /\ req[w].target_chars.kind = "string"
HasEmptyString(w) ==
    HasStringFields(w) /\ (req[w].prompt.val = <<>> \/ req[w].target_chars.val = <<>>)
HasAbsentField(w) ==
    /\ req[w].json = "object"
    /\ (req[w].prompt.kind = "absent" \/ req[w].target_chars.kind = "absent")
Left(w) == pc[w] \in {"done", "thrown"}
MissingMessage == "Missing prompt or target_chars parameter"

\* C1: a request that carries both fields, one of them the empty string, is
\* answered 400 "Missing prompt or target_chars parameter"; its handler
\* never allocates a batch and never calls llama_decode.
C1_EmptyInputRejected ==
    \A w \in Workers :
        HasEmptyString(w) =>
            /\ pc[w] = "done"
            /\ decode_calls[w] = 0
            /\ batch[w].state = "none"
            /\ res[w].status = 400
            /\ res[w].error = MissingMessage
            /\ res[w].tokens = <<>>

C1_Witness ==
    \E w \in Workers :
        /\ HasStringFields(w)
        /\ req[w].prompt.val # <<>>
        /\ req[w].target_chars.val = <<>>
        /\ pc[w] = "done"
        /\ res[w].status = 400

\* tokens_list.size() of a request that got as far as tokenizing its prompt
PromptTokenCount(w) == Len(tokens_list[w])
IsOverlong(w) ==
    HasStringFields(w) /\ ~HasEmptyString(w) /\ PromptTokenCount(w) > n_ctx

\* C2: a prompt of more than n_ctx tokens is answered 400 "Prompt is too
\* long"; no batch is allocated for it and llama_decode is never called.
C2_OverlongPromptRejected ==
    \A w \in Workers :
        IsOverlong(w) =>
            /\ pc[w] = "done"
            /\ decode_calls[w] = 0
            /\ batch[w].state = "none"
            /\ res[w].status = 400
            /\ res[w].error = "Prompt is too long"
            /\ res[w].tokens = <<>>

C2_Witness ==
    \E w \in Workers :
        /\ IsOverlong(w)
        /\ PromptTokenCount(w) = n_ctx + 1
        /\ pc[w] = "done"
        /\ res[w].error = "Prompt is too long"

\* C3: at most one llama_decode on the shared context is in flight.
C3_DecodeMutualExclusion ==
    Cardinality({w \in Workers : pc[w] = "decoding"}) <= 1

\* C4: a handler that has returned holds no live batch, and when every
\* handler has returned no batch buffer remains allocated.
C4_BatchReleased ==
    /\ \A w \in Workers : Left(w) => batch[w].state # "live"
    /\ (\A w \in Workers : Returned(w)) => heap = 0

\* C5: a request calls llama_decode at most once; when the call fails the
\* handler has returned with status 500 and no token entry, after one call.
C5_DecodeOnceNoRetry ==
    \A w \in Workers :
        /\ decode_calls[w] <= 1
        /\ decode_rc[w] = "failed" =>
             /\ pc[w] = "done"
             /\ decode_calls[w] = 1
             /\ res[w].status = 500
             /\ res[w].tokens = <<>>

C5_Witness ==
    \E w \in Workers :
        /\ decode_rc[w] = "failed"
        /\ pc[w] = "done"
        /\ res[w].status = 500

\* C6: the batch a handler submits to llama_decode has one entry per prompt
\* token, entry i holding token i at position i with sequence id 0, and the
\* logits flag set on the last entry and on no other.
C6_BatchWellFormed ==
    \A w \in Workers :
        pc[w] = "decoding" =>
            LET b == batch[w]  toks == tokens_list[w] IN
            /\ b.n_tokens = Len(toks)
            /\ \A i \in 1 .. Len(toks) :
                 /\ b.token[i] = toks[i]
                 /\ b.pos[i] = i - 1
                 /\ b.seq_id[i] = 0
                 /\ b.logits[i] = (i = Len(toks))
            /\ Cardinality(OutputRows(b)) = 1

\* C7: between a handler's successful decode and its read of the logits the
\* context holds the logits of that decode, at the row the handler asks for,
\* and no other decode runs on the context.  Stated for batches that fit
\* their buffer, so that only the interleaving of handlers can break it.
C7_LogitsOfOwnDecode ==
    \A w \in Workers :
        (pc[w] = "decoded" /\ batch[w].n_tokens <= BatchCapacity) =>
            /\ decode_rc[w] = "ok"
            /\ ctx_logits.owner = w
            /\ LogitsIndex(batch[w]) \in ctx_logits.rows
            /\ \A v \in Workers \ {w} : pc[v] # "decoding"

\* C8: a query that ran alone on the server leaves the attention cache of
\* the context as it found it.
C8_NoStateBetweenQueries ==
    \A w \in Workers :
        (Left(w) /\ \A v \in Workers \ {w} : pc[v] = "idle") =>
            kv_cache = kv_start[w]

\* C9: a request without a prompt or target_chars field is answered 400
\* with the missing-parameter message, as for an empty string.
C9_AbsentFieldRejected ==
    \A w \in Workers :
        (HasAbsentField(w) /\ Left(w)) =>
            /\ pc[w] = "done"
            /\ res[w].status = 400
            /\ res[w].error = MissingMessage

IsDegenerateSum(f) == f.k # "fin" \/ f.n = 0
IsErrorResponse(r) == r.status >= 400 /\ r.error # "" /\ r.tokens = <<>>

\* C10: when the sum of exponentials of the logits a handler read is zero
\* or not finite, the response is an error and carries no probabilities.
C10_DegenerateSumIsError ==
    \A w \in Workers :
        (pc[w] = "done" /\ logits[w] # <<>>
            /\ IsDegenerateSum(SumExp(logits[w], n_vocab))) =>
                IsErrorResponse(res[w])

\* the end of the fragment that starts after position b of s: the next
\* comma, or the end of the string
FragmentEnd(s, b) ==
    CHOOSE c \in (b + 1) .. (Len(s) + 1) :
        /\ c = Len(s) + 1 \/ s[c] = ","
        /\ \A d \in (b + 1) .. (c - 1) : s[d] # ","

\* each fragment after position b tokenized on its own without the start
\* token, the results one after the other
RECURSIVE TokensFrom(_, _)
TokensFrom(s, b) ==
    IF b > Len(s) THEN <<>>
    ELSE llama_tokenize(SubSeq(s, b + 1, FragmentEnd(s, b) - 1), FALSE)
            \o TokensFrom(s, FragmentEnd(s, b))
ParseReturned == unit_ret.fn = "parse_target_tokens"

\* C11: parse_target_tokens returns the tokens of the comma-separated
\* fragments, each tokenized on its own without the start token, in fragment
\* order; "H,e,l,o" gives the 4 tokens of "H", "e", "l" and "o".
C11_FragmentwiseTokens ==
    ParseReturned =>
        /\ unit_ret.val = TokensFrom(unit_arg, 0)
        /\ unit_arg = HeloTarget =>
             /\ Len(unit_ret.val) = 4
             /\ unit_ret.val = llama_tokenize(<<"H">>, FALSE)
                                 \o llama_tokenize(<<"e">>, FALSE)
                                 \o llama_tokenize(<<"l">>, FALSE)
                                 \o llama_tokenize(<<"o">>, FALSE)

C11_Witness ==
    /\ ParseReturned
    /\ unit_arg = HeloTarget
    /\ Len(unit_ret.val) = 4

\* the handler answered with a result
Succeeded(w) == pc[w] = "done" /\ decode_rc[w] = "ok"
ResolvedTargets(w) == parse_target_tokens(req[w].target_chars.val)

\* C12: a result has one entry per resolved target token, in the order of
\* resolution; entry k holds the piece of target token k and the entry of
\* the distribution at that token, as JSON renders it; entries of the same
\* token are equal.
C12_OneEntryPerTargetToken ==
    \A w \in Workers :
        Succeeded(w) =>
            LET tt == ResolvedTargets(w)  out == res[w].tokens IN
            /\ Len(out) = Len(tt)
            /\ \A k \in 1 .. Len(tt) :
                 /\ out[k].token = llama_token_to_piece(tt[k])
                 /\ out[k].probability = JsonNumber(probs[w][tt[k]])
            /\ \A j, k \in 1 .. Len(tt) : tt[j] = tt[k] => out[j] = out[k]

C12_Witness ==
    \E w \in Workers :
        /\ Succeeded(w)
        /\ req[w].target_chars.val = <<"e", ",", ",", "e">>
        /\ Len(res[w].tokens) = 2
        /\ res[w].tokens[1] = res[w].tokens[2]
        /\ res[w].tokens[1].token = "e"
        /\ res[w].tokens[1].probability.k = "fin"

\* the error kinds of a request, by what is wrong with it
IsMalformedInput(w) == req[w].json = "malformed" \/ HasAbsentField(w) \/ HasEmptyString(w)
IsInferenceFailure(w) == decode_rc[w] = "failed"
\* a result with every entry of the target list
IsCompleteResult(w) ==
    /\ res[w].content_set
    /\ res[w].error = ""
    /\ res[w].status < 400
    /\ Len(res[w].tokens) = Len(ResolvedTargets(w))

\* C13: a handler that is left has answered with an error without token
\* entries or with a complete result; malformed input and a prompt beyond
\* the context are answered with a client error (4xx), a failed decode with
\* a server error (5xx), and the three kinds carry different messages.
C13_DistinctErrorsNoPartial ==
    \A w \in Workers :
        Left(w) =>
            /\ IsErrorResponse(res[w]) \/ IsCompleteResult(w)
            /\ IsMalformedInput(w) =>
                 IsErrorResponse(res[w]) /\ res[w].status \in 400 .. 499
            /\ IsOverlong(w) =>
                 IsErrorResponse(res[w]) /\ res[w].status \in 400 .. 499
            /\ IsInferenceFailure(w) =>
                 IsErrorResponse(res[w]) /\ res[w].status \in 500 .. 599
            /\ \A v \in Workers :
                 (/\ Left(v)
                  /\ IsErrorResponse(res[v]) /\ IsErrorResponse(res[w])
                  /\ \/ IsMalformedInput(v) /\ IsOverlong(w)
                     \/ IsMalformedInput(v) /\ IsInferenceFailure(w)
                     \/ IsOverlong(v) /\ IsInferenceFailure(w))
                    => res[v].error # res[w].error

SoftmaxReturned == unit_ret.fn = "compute_softmax"
\* the sum of the first i entries of a distribution
RECURSIVE SumProbs(_, _)
SumProbs(p, i) == IF i = 0 THEN FZero ELSE FAdd(SumProbs(p, i - 1), p[i - 1])
\* |f - 1| <= 1e-5
IsAboutOne(f) ==
    /\ f.k = "fin"
    /\ (f.n - f.d) * 100000 <= f.d
    /\ (f.d - f.n) * 100000 <= f.d
\* f >= 0: a float that is no NaN (the floats here are not negative)
IsNonNegative(f) == f.k # "nan"

\* C14: what compute_softmax returns sums to 1 within 1e-5 and has no
\* entry below 0, whatever the logits.
C14_SoftmaxIsDistribution ==
    SoftmaxReturned =>
        /\ IsAboutOne(SumProbs(unit_ret.val, SoftmaxLen))
        /\ \A i \in 0 .. (SoftmaxLen - 1) : IsNonNegative(unit_ret.val[i])

\* the positions after which a fragment of s starts
FragmentStarts(s) == {0} \cup {c \in 1 .. Len(s) : s[c] = ","}
FragmentAfter(s, b) == SubSeq(s, b + 1, FragmentEnd(s, b) - 1)
\* s without the fragment that starts after b and without one of the commas
\* around it: the one behind it, or the one before it when it is the last
WithoutFragment(s, b) ==
    IF FragmentEnd(s, b) <= Len(s)
    THEN SubSeq(s, 1, b) \o SubSeq(s, FragmentEnd(s, b) + 1, Len(s))
    ELSE SubSeq(s, 1, b - 1)

\* C15: a fragment without tokens (empty, or of unknown characters) adds
\* nothing: the call returns a list of target tokens, the same list the
\* string without that fragment gives.
C15_ZeroTokenFragmentSkipped ==
    ParseReturned =>
        /\ \A k \in 1 .. Len(unit_ret.val) : unit_ret.val[k] \in Tokens \ {TokenBOS}
        /\ \A b \in FragmentStarts(unit_arg) :
             llama_tokenize(FragmentAfter(unit_arg, b), FALSE) = <<>> =>
                unit_ret.val = parse_target_tokens(WithoutFragment(unit_arg, b))

C15_Witness ==
    /\ ParseReturned
    /\ unit_arg = <<"e", ",", ",", "H">>
    /\ unit_ret.val = llama_tokenize(<<"e">>, FALSE) \o llama_tokenize(<<"H">>, FALSE)
    /\ Len(unit_ret.val) = 2

\* C16: the batch of a prompt that passed the context-length check holds
\* at most as many entries as it was allocated for.
C16_BatchWithinCapacity ==
    \A w \in Workers :
        (batch[w].state = "live" /\ PromptTokenCount(w) <= n_ctx) =>
            batch[w].n_tokens <= BatchCapacity

\* the handler has set the flag of the last entry and called llama_decode
HasSubmitted(w) == pc[w] \in {"decoding", "decoded"} \/ decode_rc[w] # "none"

UsesContext(w) == DecodeSucceeds(w) \/ DecodeFails(w) \/ Respond(w)

\* C17: once the context is freed no /props handler takes a step that
\* works on it.
C17_NoUseAfterFree ==
    [][freed.ctx = 0 \/ ~(\E w \in Workers : UsesContext(w))]_vars

\* C18: the context, the model and the backend are each freed at most once.
C18_FreedAtMostOnce ==
    /\ freed.ctx <= 1
    /\ freed.model <= 1
    /\ freed.backend <= 1

====
